---- MODULE Spec2Model ----
(***************************************************************************)
(* Model of the two rewriting scripts of the repository:                   *)
(*   fix_const_var.py  (fix_const_to_var, one re.sub)                      *)
(*   fix_tests.py      (fix_env_get_calls, two re.sub in sequence)         *)
(* A text is a sequence of one-character strings.  The regular             *)
(* expressions are modelled by what Python's re does with them: a match    *)
(* attempt at a position with greedy quantifiers and ordered alternation,  *)
(* and re.sub's left-to-right scan over non-overlapping matches.           *)
(***************************************************************************)
EXTENDS Integers, Sequences, FiniteSets, TLC

VARIABLES
    tool,          \* SpecFn: the function under test
    text,          \* SpecFn: the input text
    results,       \* SpecFn: the outputs of the successive applications
    procs,         \* the invocations that exist in this run
    script,        \* per invocation: which script it runs
    sys_argv,      \* per invocation: sys.argv (script name first)
    pc,            \* per invocation: position in the __main__ block
    filepath,      \* per invocation: the local variable filepath
    content,       \* per invocation: the local variable content
    fixed_content, \* per invocation: the local variable fixed_content
    stdout,        \* per invocation: the lines printed
    exit_code,     \* per invocation: the exit status, NoCode while running
    log,           \* per invocation: the file operations performed, in order
    fs,            \* the file system: path -> text
    fs0,           \* the file system as it was before any invocation ran
    lastWriter,    \* the invocation whose write reached the file last
    overlapped     \* per invocation: another write landed since its truncation

fnvars == <<tool, text, results>>
procvars == <<procs, script, sys_argv, pc, filepath, content, fixed_content,
              stdout, exit_code, log, fs, fs0, lastWriter, overlapped>>
vars == <<tool, text, results, procs, script, sys_argv, pc, filepath, content,
          fixed_content, stdout, exit_code, log, fs, fs0, lastWriter, overlapped>>

-----------------------------------------------------------------------------
(* Bounds *)

\* the most fragments an input text of SpecFn is concatenated from
MaxFrags == 2

\* the most command-line arguments an invocation is started with
MaxArgs == 2

-----------------------------------------------------------------------------
(* Characters *)

DQ == "\""
SQ == "'"
NL == "\n"

\* \w of a Python str pattern, restricted to ASCII
WordChars ==
    {"a", "b", "c", "d", "e", "f", "g", "h", "i", "j", "k", "l", "m",
     "n", "o", "p", "q", "r", "s", "t", "u", "v", "w", "x", "y", "z",
     "A", "B", "C", "D", "E", "F", "G", "H", "I", "J", "K", "L", "M",
     "N", "O", "P", "Q", "R", "S", "T", "U", "V", "W", "X", "Y", "Z",
     "0", "1", "2", "3", "4", "5", "6", "7", "8", "9", "_"}

\* the literal w occurs in s at position i (1-based)
LitAt(s, i, w) ==
    /\ i >= 1
    /\ i + Len(w) - 1 <= Len(s)
    /\ SubSeq(s, i, i + Len(w) - 1) = w

\* the positions at which the literal w occurs in s
Occurrences(s, w) == {i \in 1..Len(s) : LitAt(s, i, w)}

-----------------------------------------------------------------------------
(* The patterns and the replacement templates *)

\* r'const env = try'
PatConstEnv == <<"c", "o", "n", "s", "t", " ", "e", "n", "v", " ", "=", " ", "t", "r", "y">>
\* mutant: the template loses the keyword that follows the declaration
ReplVarEnvNoTry == <<"v", "a", "r", " ", "e", "n", "v", " ", "=">>
\* r'var env = try'
ReplVarEnv == <<"v", "a", "r", " ", "e", "n", "v", " ", "=", " ", "t", "r", "y">>
\* 'const ' of pattern 1 and of its template
LitConst == <<"c", "o", "n", "s", "t", " ">>
\* ' = try env\.get\(' of pattern 1
LitTryGet == <<" ", "=", " ", "t", "r", "y", " ", "e", "n", "v", ".", "g", "e", "t", "(">>
\* '_ = try env\.get\(' of pattern 2
LitDiscardTryGet == <<"_", " ", "=", " ", "t", "r", "y", " ", "e", "n", "v", ".", "g", "e", "t", "(">>
\* ' = env.get(' of template 1
LitGet == <<" ", "=", " ", "e", "n", "v", ".", "g", "e", "t", "(">>
\* '_ = env.get(' of template 2
LitDiscardGet == <<"_", " ", "=", " ", "e", "n", "v", ".", "g", "e", "t", "(">>
\* ').?' of both templates
LitUnwrap == <<")", ".", "?">>

NoMatch == [ok |-> FALSE, end |-> 0, id |-> <<>>, key |-> <<>>]

\* \w+ (also [\w_]+) at position j: the lengths n >= 1 it can take
WordRuns(s, j) ==
    {n \in 1..(Len(s) - j + 1) : \A x \in j..(j + n - 1) : s[x] \in WordChars}

\* a quoted alternative, "[^"]+" or '[^']+', at position k: the positions just
\* after the closing quote, for every length >= 1 the negated class can take
\* (the negated class matches every character but the quote, newline included)
QuotedEnds(s, k, q) ==
    IF k <= Len(s) /\ s[k] = q
    THEN {e \in (k + 3)..(Len(s) + 1) :
             /\ s[e - 1] = q
             /\ \A x \in (k + 1)..(e - 2) : s[x] # q}
    ELSE {}

\* mutant: the group without its single-quoted alternative
KeyEndsNoSingle(s, k) ==
    {<<1, e>> : e \in QuotedEnds(s, k, DQ)}
      \cup {<<3, k + n>> : n \in WordRuns(s, k)}

\* the group ("[^"]+"|'[^']+'|[\w_]+) at position k: <<alternative, end>>
KeyEnds(s, k) ==
    {<<1, e>> : e \in QuotedEnds(s, k, DQ)}
      \cup {<<2, e>> : e \in QuotedEnds(s, k, SQ)}
      \cup {<<3, k + n>> : n \in WordRuns(s, k)}

\* the ways the rest of a pattern, ' = try env\.get\(' <group> '\)' after the
\* identifier of length n (n = 0 for pattern 2, whose text before the group is
\* the literal lit), matches from position j: [n, alt, kfrom, end]
TailMatches(s, j, n, lit) ==
    IF LitAt(s, j, lit)
    THEN {[n |-> n, alt |-> ke[1], kfrom |-> j + Len(lit), end |-> ke[2] + 1] :
             ke \in {c \in KeyEnds(s, j + Len(lit)) :
                        c[2] <= Len(s) /\ s[c[2]] = ")"}}
    ELSE {}

\* the backtracking order: a longer identifier first (greedy \w+), then the
\* earlier alternative, then the longer key (greedy)
Prefer(a, b) ==
    \/ a.n > b.n
    \/ a.n = b.n /\ a.alt < b.alt
    \/ a.n = b.n /\ a.alt = b.alt /\ a.end >= b.end

First(cands) == CHOOSE a \in cands : \A b \in cands : Prefer(a, b)

\* r'const (\w+) = try env\.get\(("[^"]+"|\'[^\']+\'|[\w_]+)\)' at position i
MatchBound(s, i) ==
    IF ~LitAt(s, i, LitConst) THEN NoMatch
    ELSE LET cands == UNION {TailMatches(s, i + 6 + n, n, LitTryGet) :
                                n \in WordRuns(s, i + 6)}
         IN IF cands = {} THEN NoMatch
            ELSE LET m == First(cands)
                 IN [ok |-> TRUE, end |-> m.end,
                     id |-> SubSeq(s, i + 6, i + 5 + m.n),
                     key |-> SubSeq(s, m.kfrom, m.end - 2)]

\* r'_ = try env\.get\(("[^"]+"|\'[^\']+\'|[\w_]+)\)' at position i
MatchDiscard(s, i) ==
    LET cands == TailMatches(s, i, 0, LitDiscardTryGet)
    IN IF cands = {} THEN NoMatch
       ELSE LET m == First(cands)
            IN [ok |-> TRUE, end |-> m.end, id |-> <<>>,
                key |-> SubSeq(s, m.kfrom, m.end - 2)]

\* r'const env = try' at position i
MatchConstEnv(s, i) ==
    IF LitAt(s, i, PatConstEnv)
    THEN [ok |-> TRUE, end |-> i + Len(PatConstEnv), id |-> <<>>, key |-> <<>>]
    ELSE NoMatch

\* a match attempt of the pattern pat anchored at position i
MatchAt(pat, s, i) ==
    CASE pat = "const_env" -> MatchConstEnv(s, i)
      [] pat = "bound" -> MatchBound(s, i)
      [] pat = "discard" -> MatchDiscard(s, i)

\* mutant: template 1 refers to group 1 where it means group 2
ExpandWrongGroup(pat, m) ==
    CASE pat = "const_env" -> ReplVarEnv
      [] pat = "bound" -> LitConst \o m.id \o LitGet \o m.id \o LitUnwrap
      [] pat = "discard" -> LitDiscardGet \o m.key \o LitUnwrap

\* mutant: the templates keep the 'try ' they are meant to drop
ExpandKeepTry(pat, m) ==
    CASE pat = "const_env" -> ReplVarEnv
      [] pat = "bound" -> LitConst \o m.id \o LitTryGet \o m.key \o LitUnwrap
      [] pat = "discard" -> LitDiscardTryGet \o m.key \o LitUnwrap

\* the replacement template of pat expanded for the match m
Expand(pat, m) ==
    CASE pat = "const_env" -> ReplVarEnv
      [] pat = "bound" -> LitConst \o m.id \o LitGet \o m.key \o LitUnwrap
      [] pat = "discard" -> LitDiscardGet \o m.key \o LitUnwrap

\* pattern.search(s, i): the leftmost position >= i at which a match attempt
\* succeeds, 0 when there is none
Search(pat, s, i) ==
    LET starts == {j \in i..Len(s) : MatchAt(pat, s, j).ok}
    IN IF starts = {} THEN 0
       ELSE CHOOSE j \in starts : \A x \in starts : j <= x

\* the matches re.sub replaces: the leftmost match from position i on, then
\* the search resumes just after it: <<[from, m]>> in order
RECURSIVE FindFrom(_, _, _)
FindFrom(pat, s, i) ==
    LET j == Search(pat, s, i)
    IN IF j = 0 THEN <<>>
       ELSE LET m == MatchAt(pat, s, j)
            IN <<[from |-> j, m |-> m]>> \o FindFrom(pat, s, m.end)

FindAll(pat, s) == FindFrom(pat, s, 1)

\* mutant: the text after the last match is not copied
RECURSIVE SubFromDropsTail(_, _, _)
SubFromDropsTail(pat, s, i) ==
    LET j == Search(pat, s, i)
    IN IF j = 0 THEN <<>>
       ELSE LET m == MatchAt(pat, s, j)
            IN SubSeq(s, i, j - 1) \o Expand(pat, m)
                 \o SubFromDropsTail(pat, s, m.end)

\* re.sub(pattern, template, s): the text between the matches is copied, each
\* match is replaced by its expanded template
RECURSIVE SubFrom(_, _, _)
SubFrom(pat, s, i) ==
    LET j == Search(pat, s, i)
    IN IF j = 0 THEN SubSeq(s, i, Len(s))
       ELSE LET m == MatchAt(pat, s, j)
            IN SubSeq(s, i, j - 1) \o Expand(pat, m) \o SubFrom(pat, s, m.end)

Sub(pat, s) == SubFrom(pat, s, 1)

\* mutant: re.sub with count=1, only the first match is replaced
fix_const_to_var_once(s) ==
    LET j == Search("const_env", s, 1)
    IN IF j = 0 THEN s
       ELSE SubSeq(s, 1, j - 1) \o ReplVarEnv
              \o SubSeq(s, j + Len(PatConstEnv), Len(s))

\* fix_const_var.py
fix_const_to_var(s) == Sub("const_env", s)

\* fix_tests.py: pattern 1 over the whole text, then pattern 2 over the result
fix_env_get_calls(s) == Sub("discard", Sub("bound", s))

-----------------------------------------------------------------------------
(* Input texts of the function-level specification *)

BoundForm(id, key) == LitConst \o id \o LitTryGet \o key \o <<")">>
DiscardForm(key) == LitDiscardTryGet \o key \o <<")">>
Quoted(q, x) == <<q>> \o x \o <<q>>

IdApiKey == <<"a", "p", "i", "K", "e", "y">>
KeyApiKey == <<"A", "P", "I", "_", "K", "E", "Y">>
KeyDebug == <<"D", "E", "B", "U", "G">>
IdVal == <<"v", "a", "l">>
KeyVar == <<"k", "e", "y", "V", "a", "r">>
TailEnvLoad == <<" ", "E", "n", "v", ".", "l", "o", "a", "d", "(", ")", ";">>
ConstConfigTry == <<"c", "o", "n", "s", "t", " ", "c", "o", "n", "f", "i", "g", " ", "=", " ", "t", "r", "y">>
TwoLineKey == <<"K", NL, "K">>

ConstFrags ==
    {PatConstEnv, ReplVarEnv, TailEnvLoad, ConstConfigTry,
     <<"c", "o", "n", "s", "t", " ">>, <<"e", "n", "v", " ", "=", " ", "t", "r", "y">>, <<NL>>}

GetFrags ==
    {BoundForm(IdApiKey, Quoted(DQ, KeyApiKey)),
     DiscardForm(Quoted(SQ, KeyDebug)),
     BoundForm(IdVal, KeyVar),
     BoundForm(<<"a">>, Quoted(DQ, <<>>)),
     DiscardForm(Quoted(SQ, <<>>)),
     BoundForm(<<"a">>, Quoted(DQ, TwoLineKey)),
     DiscardForm(Quoted(SQ, TwoLineKey)),
     BoundForm(<<"a">>, Quoted(DQ, BoundForm(<<"b">>, <<"K">>))),
     DiscardForm(Quoted(DQ, DiscardForm(<<"K">>))),
     BoundForm(<<"a">>, Quoted(SQ, DiscardForm(<<"K">>))),
     LitConst \o <<"a">> \o LitTryGet \o <<DQ>>,
     <<DQ, ")">>,
     LitConst \o <<"a">>,
     LitDiscardTryGet \o <<"K">>,
     <<")">>, <<DQ>>, <<NL>>}

FnTools == {"fix_const_to_var", "fix_env_get_calls"}

Frags(t) == IF t = "fix_const_to_var" THEN ConstFrags ELSE GetFrags

\* the concatenations of at most n fragments of F
RECURSIVE Concats(_, _)
Concats(F, n) ==
    IF n = 0 THEN {<<>>}
    ELSE LET shorter == Concats(F, n - 1)
         IN shorter \cup {a \o f : a \in shorter, f \in F}

Texts(t) == Concats(Frags(t), MaxFrags)

Apply(t, s) ==
    IF t = "fix_const_to_var" THEN fix_const_to_var(s) ELSE fix_env_get_calls(s)

-----------------------------------------------------------------------------
(* SpecFn: a function applied to a text, and applied again to its output *)

AllProcs == {"A", "B"}
Paths == {"a.zig", "b.zig"}
Scripts == {"fix_const_var.py", "fix_tests.py"}
\* the exit status of an invocation: none while it runs
NoCode == <<>>
Code(n) == <<n>>

NoProcs ==
    /\ procs = {}
    /\ script = [p \in AllProcs |-> "none"]
    /\ sys_argv = [p \in AllProcs |-> <<>>]
    /\ pc = [p \in AllProcs |-> "absent"]
    /\ filepath = [p \in AllProcs |-> "none"]
    /\ content = [p \in AllProcs |-> <<>>]
    /\ fixed_content = [p \in AllProcs |-> <<>>]
    /\ stdout = [p \in AllProcs |-> <<>>]
    /\ exit_code = [p \in AllProcs |-> NoCode]
    /\ log = [p \in AllProcs |-> <<>>]
    /\ fs = [f \in Paths |-> <<>>]
    /\ fs0 = fs
    /\ lastWriter = [f \in Paths |-> "none"]
    /\ overlapped = [p \in AllProcs |-> FALSE]

InitFn ==
    /\ tool \in FnTools
    /\ text \in Texts(tool)
    /\ results = <<>>
    /\ NoProcs

\* the function is applied to the input text
FnRun ==
    /\ procs = {}
    /\ results = <<>>
    /\ results' = <<Apply(tool, text)>>
    /\ UNCHANGED <<tool, text>>
    /\ UNCHANGED procvars

\* the function is applied to its own output
FnRerun ==
    /\ procs = {}
    /\ Len(results) = 1
    /\ results' = Append(results, Apply(tool, results[1]))
    /\ UNCHANGED <<tool, text>>
    /\ UNCHANGED procvars

NextFn == FnRun \/ FnRerun

SpecFn == InitFn /\ [][NextFn]_vars

-----------------------------------------------------------------------------
(* The command-line tools: the __main__ block of either script *)

\* the file contents an invocation finds
FileTexts ==
    {<<>>, <<"x">>, PatConstEnv, BoundForm(<<"e", "n", "v">>, <<"K">>)}

\* the argument lists an invocation is started with
ArgLists == Concats({<<f>> : f \in Paths}, MaxArgs)

UsageMsg(s) ==
    IF s = "fix_const_var.py" THEN "Usage: python fix_const_var.py <file>"
    ELSE "Usage: python fix_tests.py <file>"

FixedMsg(path) == <<"Fixed ", path>>

\* the function the script applies
Fix(s, t) ==
    IF s = "fix_const_var.py" THEN fix_const_to_var(t) ELSE fix_env_get_calls(t)

\* a write of new at offset 0 of a file holding old: the bytes of old beyond
\* the written ones stay
Overwrite(old, new) ==
    IF Len(old) > Len(new) THEN new \o SubSeq(old, Len(new) + 1, Len(old))
    ELSE new

FnIdle ==
    /\ tool = "none"
    /\ text = <<>>
    /\ results = <<>>

InitProcs(P) ==
    /\ FnIdle
    /\ procs = P
    /\ \E s \in [P -> Scripts], a \in [P -> ArgLists] :
          /\ script = [p \in AllProcs |-> IF p \in P THEN s[p] ELSE "none"]
          /\ sys_argv = [p \in AllProcs |->
                            IF p \in P THEN <<s[p]>> \o a[p] ELSE <<>>]
    /\ pc = [p \in AllProcs |-> IF p \in P THEN "start" ELSE "absent"]
    /\ filepath = [p \in AllProcs |-> "none"]
    /\ content = [p \in AllProcs |-> <<>>]
    /\ fixed_content = [p \in AllProcs |-> <<>>]
    /\ stdout = [p \in AllProcs |-> <<>>]
    /\ exit_code = [p \in AllProcs |-> NoCode]
    /\ log = [p \in AllProcs |-> <<>>]
    /\ fs \in [Paths -> FileTexts]
    /\ fs0 = fs
    /\ lastWriter = [f \in Paths |-> "none"]
    /\ overlapped = [p \in AllProcs |-> FALSE]

\* len(sys.argv): the script name and the arguments
Argc(p) == Len(sys_argv[p])

Logged(p, op) == log' = [log EXCEPT ![p] = Append(@, <<op, filepath[p]>>)]

\* an uncaught exception: traceback, exit status 1
Raise(p, op) ==
    /\ Logged(p, op)
    /\ pc' = [pc EXCEPT ![p] = "exited"]
    /\ exit_code' = [exit_code EXCEPT ![p] = Code(1)]

\* mutant: the test is len(sys.argv) < 2, so that extra arguments pass
CheckArgsAtLeastOne(p) ==
    /\ pc[p] = "start"
    /\ IF Argc(p) < 2
       THEN /\ pc' = [pc EXCEPT ![p] = "usage"]
            /\ UNCHANGED filepath
       ELSE /\ pc' = [pc EXCEPT ![p] = "open_r"]
            /\ filepath' = [filepath EXCEPT ![p] = sys_argv[p][2]]
    /\ UNCHANGED <<procs, script, sys_argv, content, fixed_content, stdout,
                   exit_code, log, fs, fs0, lastWriter, overlapped>>
    /\ UNCHANGED fnvars

\* if len(sys.argv) != 2: ... ; filepath = sys.argv[1]
CheckArgs(p) ==
    /\ pc[p] = "start"
    /\ IF Argc(p) # 2
       THEN /\ pc' = [pc EXCEPT ![p] = "usage"]
            /\ UNCHANGED filepath
       ELSE /\ pc' = [pc EXCEPT ![p] = "open_r"]
            /\ filepath' = [filepath EXCEPT ![p] = sys_argv[p][2]]
    /\ UNCHANGED <<procs, script, sys_argv, content, fixed_content, stdout,
                   exit_code, log, fs, fs0, lastWriter, overlapped>>
    /\ UNCHANGED fnvars

\* print("Usage: python <script> <file>")
PrintUsage(p) ==
    /\ pc[p] = "usage"
    /\ stdout' = [stdout EXCEPT ![p] = Append(@, UsageMsg(script[p]))]
    /\ pc' = [pc EXCEPT ![p] = "sys_exit"]
    /\ UNCHANGED <<procs, script, sys_argv, filepath, content, fixed_content,
                   exit_code, log, fs, fs0, lastWriter, overlapped>>
    /\ UNCHANGED fnvars

\* sys.exit(1)
SysExit(p) ==
    /\ pc[p] = "sys_exit"
    /\ exit_code' = [exit_code EXCEPT ![p] = Code(1)]
    /\ pc' = [pc EXCEPT ![p] = "exited"]
    /\ UNCHANGED <<procs, script, sys_argv, filepath, content, fixed_content,
                   stdout, log, fs, fs0, lastWriter, overlapped>>
    /\ UNCHANGED fnvars

\* open(filepath, 'r', encoding='utf-8') succeeds
OpenRead(p) ==
    /\ pc[p] = "open_r"
    /\ Logged(p, "open_r")
    /\ pc' = [pc EXCEPT ![p] = "read"]
    /\ UNCHANGED <<procs, script, sys_argv, filepath, content, fixed_content,
                   stdout, exit_code, fs, fs0, lastWriter, overlapped>>
    /\ UNCHANGED fnvars

\* open(filepath, 'r', encoding='utf-8') raises (missing file, no permission)
OpenReadFail(p) ==
    /\ pc[p] = "open_r"
    /\ Raise(p, "open_r_failed")
    /\ UNCHANGED <<procs, script, sys_argv, filepath, content, fixed_content,
                   stdout, fs, fs0, lastWriter, overlapped>>
    /\ UNCHANGED fnvars

\* content = f.read(), and the with block closes the file
Read(p) ==
    /\ pc[p] = "read"
    /\ content' = [content EXCEPT ![p] = fs[filepath[p]]]
    /\ Logged(p, "read")
    /\ pc' = [pc EXCEPT ![p] = "transform"]
    /\ UNCHANGED <<procs, script, sys_argv, filepath, fixed_content, stdout,
                   exit_code, fs, fs0, lastWriter, overlapped>>
    /\ UNCHANGED fnvars

\* f.read() raises (I/O error, undecodable bytes)
ReadFail(p) ==
    /\ pc[p] = "read"
    /\ Raise(p, "read_failed")
    /\ UNCHANGED <<procs, script, sys_argv, filepath, content, fixed_content,
                   stdout, fs, fs0, lastWriter, overlapped>>
    /\ UNCHANGED fnvars

\* fixed_content = fix_const_to_var(content) / fix_env_get_calls(content)
Transform(p) ==
    /\ pc[p] = "transform"
    /\ fixed_content' = [fixed_content EXCEPT ![p] = Fix(script[p], content[p])]
    /\ Logged(p, "transform")
    /\ pc' = [pc EXCEPT ![p] = "open_w"]
    /\ UNCHANGED <<procs, script, sys_argv, filepath, content, stdout,
                   exit_code, fs, fs0, lastWriter, overlapped>>
    /\ UNCHANGED fnvars

\* mutant: the file is opened for writing without being truncated
OpenWriteNoTruncate(p) ==
    /\ pc[p] = "open_w"
    /\ overlapped' = [overlapped EXCEPT ![p] = FALSE]
    /\ Logged(p, "open_w")
    /\ pc' = [pc EXCEPT ![p] = "write"]
    /\ UNCHANGED <<procs, script, sys_argv, filepath, content, fixed_content,
                   stdout, exit_code, fs, fs0, lastWriter>>
    /\ UNCHANGED fnvars

\* open(filepath, 'w', encoding='utf-8') succeeds: the file is truncated
OpenWrite(p) ==
    /\ pc[p] = "open_w"
    /\ fs' = [fs EXCEPT ![filepath[p]] = <<>>]
    /\ overlapped' = [overlapped EXCEPT ![p] = FALSE]
    /\ Logged(p, "open_w")
    /\ pc' = [pc EXCEPT ![p] = "write"]
    /\ UNCHANGED <<procs, script, sys_argv, filepath, content, fixed_content,
                   stdout, exit_code, fs0, lastWriter>>
    /\ UNCHANGED fnvars

\* open(filepath, 'w', encoding='utf-8') raises: the file is not touched
OpenWriteFail(p) ==
    /\ pc[p] = "open_w"
    /\ Raise(p, "open_w_failed")
    /\ UNCHANGED <<procs, script, sys_argv, filepath, content, fixed_content,
                   stdout, fs, fs0, lastWriter, overlapped>>
    /\ UNCHANGED fnvars

\* the text t of invocation p reaches the file of path f, at offset 0
Lands(p, f, t) ==
    /\ fs' = [fs EXCEPT ![f] = Overwrite(@, t)]
    /\ lastWriter' = [lastWriter EXCEPT ![f] = p]
    /\ overlapped' = [q \in AllProcs |->
                         IF q # p /\ pc[q] = "write" /\ filepath[q] = f
                         THEN TRUE ELSE overlapped[q]]

\* mutant: the result is written to the other file
WriteElsewhere(p) ==
    /\ pc[p] = "write"
    /\ \E f \in Paths \ {filepath[p]} :
          /\ Lands(p, f, fixed_content[p])
          /\ log' = [log EXCEPT ![p] = Append(@, <<"write", f>>)]
    /\ pc' = [pc EXCEPT ![p] = "print"]
    /\ UNCHANGED <<procs, script, sys_argv, filepath, content, fixed_content,
                   stdout, exit_code, fs0>>
    /\ UNCHANGED fnvars

\* f.write(fixed_content), and the with block flushes and closes the file
Write(p) ==
    /\ pc[p] = "write"
    /\ Lands(p, filepath[p], fixed_content[p])
    /\ Logged(p, "write")
    /\ pc' = [pc EXCEPT ![p] = "print"]
    /\ UNCHANGED <<procs, script, sys_argv, filepath, content, fixed_content,
                   stdout, exit_code, fs0>>
    /\ UNCHANGED fnvars

\* mutant: the exception of a failed write is swallowed and the run goes on
WriteFailSwallowed(p) ==
    /\ pc[p] = "write"
    /\ \E k \in 0..Len(fixed_content[p]) :
          IF k = 0 THEN UNCHANGED <<fs, lastWriter, overlapped>>
          ELSE Lands(p, filepath[p], SubSeq(fixed_content[p], 1, k))
    /\ Logged(p, "write_failed")
    /\ pc' = [pc EXCEPT ![p] = "print"]
    /\ UNCHANGED <<procs, script, sys_argv, filepath, content, fixed_content,
                   stdout, exit_code, fs0>>
    /\ UNCHANGED fnvars

\* f.write or the closing flush raises: any part of the text, none or all of
\* it included, has reached the file
WriteFail(p) ==
    /\ pc[p] = "write"
    /\ \E k \in 0..Len(fixed_content[p]) :
          IF k = 0 THEN UNCHANGED <<fs, lastWriter, overlapped>>
          ELSE Lands(p, filepath[p], SubSeq(fixed_content[p], 1, k))
    /\ Raise(p, "write_failed")
    /\ UNCHANGED <<procs, script, sys_argv, filepath, content, fixed_content,
                   stdout, fs0>>
    /\ UNCHANGED fnvars

\* print(f"Fixed {filepath}")
PrintFixed(p) ==
    /\ pc[p] = "print"
    /\ stdout' = [stdout EXCEPT ![p] = Append(@, FixedMsg(filepath[p]))]
    /\ Logged(p, "print")
    /\ pc' = [pc EXCEPT ![p] = "end"]
    /\ UNCHANGED <<procs, script, sys_argv, filepath, content, fixed_content,
                   exit_code, fs, fs0, lastWriter, overlapped>>
    /\ UNCHANGED fnvars

\* the end of the script: exit status 0
Exit(p) ==
    /\ pc[p] = "end"
    /\ exit_code' = [exit_code EXCEPT ![p] = Code(0)]
    /\ pc' = [pc EXCEPT ![p] = "exited"]
    /\ UNCHANGED <<procs, script, sys_argv, filepath, content, fixed_content,
                   stdout, log, fs, fs0, lastWriter, overlapped>>
    /\ UNCHANGED fnvars

Next ==
    \/ \E p \in procs : CheckArgs(p)
    \/ \E p \in procs : PrintUsage(p)
    \/ \E p \in procs : SysExit(p)
    \/ \E p \in procs : OpenRead(p)
    \/ \E p \in procs : OpenReadFail(p)
    \/ \E p \in procs : Read(p)
    \/ \E p \in procs : ReadFail(p)
    \/ \E p \in procs : Transform(p)
    \/ \E p \in procs : OpenWrite(p)
    \/ \E p \in procs : OpenWriteFail(p)
    \/ \E p \in procs : Write(p)
    \/ \E p \in procs : WriteFail(p)
    \/ \E p \in procs : PrintFixed(p)
    \/ \E p \in procs : Exit(p)

\* one invocation, alone on the file system
Init == InitProcs({"A"})
Spec == Init /\ [][Next]_vars

\* two invocations, unsynchronized
InitConc == InitProcs(AllProcs)
SpecConc == InitConc /\ [][Next]_vars

-----------------------------------------------------------------------------
(* Properties of the two functions, checked under SpecFn *)

IsConstRun == tool = "fix_const_to_var" /\ Len(results) >= 1
IsGetRun == tool = "fix_env_get_calls" /\ Len(results) >= 1

HasLit(s, w) == Occurrences(s, w) # {}
NLCount(s) == Cardinality({i \in 1..Len(s) : s[i] = NL})
IsIdent(s) == Len(s) >= 1 /\ \A i \in 1..Len(s) : s[i] \in WordChars

\* 'try env.get(' : the text a remaining match cannot do without
LitTryEnvGet == SubSeq(LitTryGet, 4, Len(LitTryGet))

\* a string literal in the quotes q: contents of at least min characters
\* without the quote itself
IsQuotedLit(k, q, min) ==
    /\ Len(k) >= 2 + min
    /\ k[1] = q
    /\ k[Len(k)] = q
    /\ \A i \in 2..(Len(k) - 1) : k[i] # q

\* the matches of one pattern over s, as texts: the whole match, what precedes
\* the key in it, and the key
MatchTexts(pat, s) ==
    LET found == FindAll(pat, s)
    IN {[whole |-> SubSeq(s, found[x].from, found[x].m.end - 1),
         head |-> SubSeq(s, found[x].from,
                         found[x].m.end - 2 - Len(found[x].m.key)),
         key |-> found[x].m.key] : x \in 1..Len(found)}

\* the matches one run of fix_env_get_calls replaces: pattern 1 over the
\* input, pattern 2 over what pattern 1 left
RunMatches(s) == MatchTexts("bound", s) \cup MatchTexts("discard", Sub("bound", s))

\* 'var env = try' as the specification writes it
VarEnvTry == <<"v", "a", "r">> \o SubSeq(PatConstEnv, 6, Len(PatConstEnv))

\* C1: fix_const_to_var replaces every occurrence of 'const env = try' (the
\* occurrences never overlap) by 'var env = try' and keeps every character
\* outside the occurrences, in order; the two example lines of the
\* specification come out as stated.
C1_EveryOccurrenceReplaced ==
    IsConstRun =>
        LET s == text
            o == results[1]
            occ == Occurrences(s, PatConstEnv)
            Before(i) == Cardinality({x \in occ : x < i})
        IN /\ \A a, b \in occ : a < b => a + Len(PatConstEnv) <= b
           /\ Len(o) = Len(s) - 2 * Cardinality(occ)
           /\ \A x \in occ : LitAt(o, x - 2 * Before(x), VarEnvTry)
           /\ \A i \in 1..Len(s) :
                 (\A x \in occ : i < x \/ i >= x + Len(PatConstEnv))
                     => o[i - 2 * Before(i)] = s[i]
           /\ s = PatConstEnv \o TailEnvLoad => o = VarEnvTry \o TailEnvLoad
           /\ s = ConstConfigTry \o TailEnvLoad => o = s

C1_Witness ==
    /\ IsConstRun
    /\ text = PatConstEnv \o PatConstEnv
    /\ results[1] = VarEnvTry \o VarEnvTry

\* C3: a second run of fix_const_to_var changes nothing, and the output of
\* the first run holds no occurrence of 'const env = try'.
C3_ConstToVarIdempotent ==
    /\ IsConstRun => ~HasLit(results[1], PatConstEnv)
    /\ (tool = "fix_const_to_var" /\ Len(results) = 2) => results[2] = results[1]

C3_Witness ==
    /\ tool = "fix_const_to_var"
    /\ Len(results) = 2
    /\ Cardinality(Occurrences(text, PatConstEnv)) = 2
    /\ results[2] # text

\* the whole text is 'const <id> = try env.get(<key>)' with an identifier of
\* length n
IsBoundShape(s, n) ==
    /\ Len(s) >= 7 + n + Len(LitTryGet)
    /\ LitAt(s, 1, LitConst)
    /\ IsIdent(SubSeq(s, 7, 6 + n))
    /\ LitAt(s, 7 + n, LitTryGet)
    /\ s[Len(s)] = ")"

BoundId(s, n) == SubSeq(s, 7, 6 + n)
BoundKey(s, n) == SubSeq(s, 7 + n + Len(LitTryGet), Len(s) - 1)

\* the whole text is '_ = try env.get(<key>)'
IsDiscardShape(s) ==
    /\ Len(s) >= 1 + Len(LitDiscardTryGet)
    /\ LitAt(s, 1, LitDiscardTryGet)
    /\ s[Len(s)] = ")"

DiscardKey(s) == SubSeq(s, 1 + Len(LitDiscardTryGet), Len(s) - 1)

\* a key as the specification describes it: any string literal in double or
\* in single quotes, or a bare identifier
IsSpecKey(k) == IsQuotedLit(k, DQ, 0) \/ IsQuotedLit(k, SQ, 0) \/ IsIdent(k)

\* a key the patterns take and the run keeps: a bare identifier, or a quoted
\* literal whose contents are not empty and hold no 'try env.get('
IsPlainKey(k) ==
    \/ IsIdent(k)
    \/ /\ IsQuotedLit(k, DQ, 1) \/ IsQuotedLit(k, SQ, 1)
       /\ ~HasLit(k, LitTryEnvGet)

\* the rewrite of C2 for the keys that satisfy Key
RewritesShapes(Key(_)) ==
    IsGetRun =>
        /\ \A n \in 1..Len(text) :
              (IsBoundShape(text, n) /\ Key(BoundKey(text, n))) =>
                  results[1] = LitConst \o BoundId(text, n) \o LitGet
                                 \o BoundKey(text, n) \o LitUnwrap
        /\ (IsDiscardShape(text) /\ Key(DiscardKey(text))) =>
              results[1] = LitDiscardGet \o DiscardKey(text) \o LitUnwrap

\* C2 as stated: 'const <id> = try env.get(<key>)' and '_ = try env.get(<key>)'
\* are rewritten to 'const <id> = env.get(<key>).?' and '_ = env.get(<key>).?'
\* for every key that is a double-quoted literal, a single-quoted literal or
\* a bare identifier.
C2_AsStated == RewritesShapes(IsSpecKey)

\* C2, amended: the rewrite happens, with identifier and key kept exactly,
\* for every key that is a bare identifier or a quoted literal whose contents
\* are not empty and contain neither its own quote nor 'try env.get('.
C2_RewritesPlainKeys == RewritesShapes(IsPlainKey)

C2_Witness ==
    /\ IsGetRun
    /\ text = DiscardForm(Quoted(SQ, KeyDebug))
    /\ results[1] = LitDiscardGet \o Quoted(SQ, KeyDebug) \o LitUnwrap

\* C5 as stated: no match of either pattern contains a newline, and the
\* output has as many line breaks as the input.
C5_AsStated ==
    IsGetRun =>
        /\ \A r \in RunMatches(text) : NLCount(r.whole) = 0
        /\ NLCount(results[1]) = NLCount(text)

\* C5, amended: a match contains a newline only inside a quoted key (the
\* negated classes match it): what precedes the key holds none, nor does a
\* bare key; the key is copied, so the output has as many line breaks as the
\* input.
C5_NewlinesOnlyInQuotedKeys ==
    IsGetRun =>
        /\ \A r \in RunMatches(text) :
              /\ NLCount(r.head) = 0
              /\ NLCount(r.key) > 0 => r.key[1] \in {DQ, SQ}
              /\ NLCount(r.whole) = NLCount(r.key)
        /\ NLCount(results[1]) = NLCount(text)

C5_Witness ==
    /\ IsGetRun
    /\ \E r \in RunMatches(text) : NLCount(r.key) > 0
    /\ results[1] # text

\* no key matched in a run holds 'try env.get('
KeysClean(s) == \A r \in RunMatches(s) : ~HasLit(r.key, LitTryEnvGet)

-----------------------------------------------------------------------------
(* Properties of the tools, checked under Spec (one invocation) and SpecConc *)

IsPrefix(a, b) == Len(a) <= Len(b) /\ SubSeq(b, 1, Len(a)) = a

\* the operations invocation p performed, in order
Ops(p) == [i \in 1..Len(log[p]) |-> log[p][i][1]]
HasOp(p, op) == \E i \in 1..Len(log[p]) : log[p][i][1] = op
Count(p, ops) == Cardinality({i \in 1..Len(log[p]) : log[p][i][1] \in ops})

IOFailures == {"open_r_failed", "read_failed", "open_w_failed", "write_failed"}
Failed(p) == \E op \in IOFailures : HasOp(p, op)

SuccessOps == <<"open_r", "read", "transform", "open_w", "write", "print">>

\* C4: with an argument count other than one the tool prints the usage
\* message and exits with status 1, and neither opens, reads nor writes a
\* file at any point of the run.
C4_UsageBeforeFileAccess ==
    \A p \in procs :
        Argc(p) # 2 =>
            /\ log[p] = <<>>
            /\ fs = fs0
            /\ pc[p] \in {"start", "usage", "sys_exit", "exited"}
            /\ stdout[p] = IF pc[p] \in {"sys_exit", "exited"}
                           THEN <<UsageMsg(script[p])>> ELSE <<>>
            /\ exit_code[p] = IF pc[p] = "exited" THEN Code(1) ELSE NoCode
            /\ pc[p] # "exited" => ENABLED Next

C4_Witness ==
    \E p \in procs :
        /\ Argc(p) > 2
        /\ pc[p] = "exited"
        /\ exit_code[p] = Code(1)
        /\ stdout[p] = <<UsageMsg(script[p])>>

\* C6: with one argument and no I/O failure a run opens and reads the file
\* once, transforms, opens and writes the same file once, prints
\* 'Fixed <filepath>' and exits with status 0, in this order.
C6_SuccessPathOrder ==
    \A p \in procs :
        (Argc(p) = 2 /\ ~Failed(p)) =>
            /\ IsPrefix(Ops(p), SuccessOps)
            /\ \A i \in 1..Len(log[p]) : log[p][i][2] = sys_argv[p][2]
            /\ stdout[p] = IF HasOp(p, "print")
                           THEN <<FixedMsg(sys_argv[p][2])>> ELSE <<>>
            /\ exit_code[p] \in {NoCode, Code(0)}
            /\ exit_code[p] = Code(0) <=> pc[p] = "exited"
            /\ pc[p] = "exited" => Ops(p) = SuccessOps
            /\ HasOp(p, "read") => content[p] = fs0[sys_argv[p][2]]
            /\ HasOp(p, "write") =>
                  fs = [fs0 EXCEPT ![sys_argv[p][2]] =
                                       Fix(script[p], fs0[sys_argv[p][2]])]

C6_Witness ==
    \E p \in procs :
        /\ pc[p] = "exited"
        /\ exit_code[p] = Code(0)
        /\ Ops(p) = SuccessOps
        /\ fs[filepath[p]] # fs0[filepath[p]]

\* C7: a failed read ends the run with a non-zero status, without a write and
\* without the confirmation, the file unchanged; a failed write ends the run
\* with a non-zero status, without a second attempt and without the
\* confirmation, the file holding some beginning of the text.
C7_IOFailureEndsRun ==
    \A p \in procs :
        /\ (HasOp(p, "open_r_failed") \/ HasOp(p, "read_failed")) =>
              /\ pc[p] = "exited"
              /\ exit_code[p] = Code(1)
              /\ Count(p, {"open_w", "open_w_failed", "write", "write_failed"}) = 0
              /\ stdout[p] = <<>>
              /\ fs = fs0
        /\ (HasOp(p, "open_w_failed") \/ HasOp(p, "write_failed")) =>
              /\ pc[p] = "exited"
              /\ exit_code[p] = Code(1)
              /\ Count(p, {"open_w", "open_w_failed"}) = 1
              /\ Count(p, {"write", "write_failed"}) <= 1
              /\ stdout[p] = <<>>
              /\ HasOp(p, "open_w_failed") => fs = fs0
              /\ HasOp(p, "write_failed") =>
                    /\ IsPrefix(fs[filepath[p]], fixed_content[p])
                    /\ \A f \in Paths \ {filepath[p]} : fs[f] = fs0[f]

C7_Witness ==
    \E p \in procs :
        /\ HasOp(p, "write_failed")
        /\ fs[filepath[p]] # <<>>
        /\ fs[filepath[p]] # fixed_content[p]
        /\ exit_code[p] = Code(1)

\* the text holds no match of the patterns of the script
NoMatchIn(s, t) ==
    IF s = "fix_const_var.py" THEN ~HasLit(t, PatConstEnv)
    ELSE \A i \in 1..Len(t) : ~MatchAt("bound", t, i).ok /\ ~MatchAt("discard", t, i).ok

BothDone == procs = AllProcs /\ \A p \in procs : pc[p] = "exited" /\ exit_code[p] = Code(0)
SamePath == filepath["A"] = filepath["B"]
Other(p) == CHOOSE q \in AllProcs : q # p

\* C9 as stated: after two interleaved invocations on one file, without I/O
\* failure, the file holds the transformation of what the invocation that
\* wrote last had read.
C9_AsStated ==
    (BothDone /\ SamePath) =>
        LET f == filepath["A"]
            w == lastWriter[f]
        IN fs[f] = Fix(script[w], content[w])

\* C9, amended: the file begins with the transformation of what the last
\* writer had read, and is exactly that unless the other invocation's write
\* landed between the last writer's truncation and its write; then the
\* last writer's text has overwritten the beginning of the other's.
C9_LastWriterWins ==
    (BothDone /\ SamePath) =>
        LET f == filepath["A"]
            w == lastWriter[f]
            mine == Fix(script[w], content[w])
            theirs == Fix(script[Other(w)], content[Other(w)])
        IN /\ IsPrefix(mine, fs[f])
           /\ ~overlapped[w] => fs[f] = mine
           /\ overlapped[w] => fs[f] = Overwrite(theirs, mine)

\* both read the original, and the file ends with one tool's rewrite only
C9_Witness ==
    /\ BothDone
    /\ SamePath
    /\ script["A"] # script["B"]
    /\ content["A"] = fs0[filepath["A"]]
    /\ content["B"] = fs0[filepath["A"]]
    /\ fs[filepath["A"]] = Fix(script[lastWriter[filepath["A"]]], fs0[filepath["A"]])
    /\ fs[filepath["A"]] # fs0[filepath["A"]]
    /\ Fix(script["A"], fs[filepath["A"]]) = fs[filepath["A"]]
    /\ Fix(script["B"], fs[filepath["A"]]) = fs[filepath["A"]]
    /\ Fix(script["A"], fs0[filepath["A"]]) # fs0[filepath["A"]]
    /\ Fix(script["B"], fs0[filepath["A"]]) # fs0[filepath["A"]]

====
